---------------------------- MODULE Spec2Model ----------------------------
(***************************************************************************)
(* A model of madcad/standard.py: the range stepper linrange, the standard *)
(* nut and washer lookups, and the three coil spring path generators.      *)
(*                                                                         *)
(* Numbers.  Python floats are modelled as exact rationals <<n, d>> with   *)
(* d > 0 and gcd(n, d) = 1, so every result below is the result of the     *)
(* code in exact arithmetic; floating point rounding is not modelled.      *)
(* None is the empty tuple.                                                *)
(*                                                                         *)
(* Points.  A point is a record [x, y, z, rot]: the vector (x, y, z)       *)
(* turned around the Z axis by the angle rot (radians).  The code's        *)
(* vec3(r*cos(t), r*sin(t), z) is [x |-> r, y |-> 0, z |-> z, rot |-> t],  *)
(* which keeps the helix exact without evaluating cos and sin.             *)
(***************************************************************************)
EXTENDS Integers, Sequences, FiniteSets

VARIABLES pc, fn, args, gen, out, ret

vars == <<pc, fn, args, gen, out, ret>>

---------------------------------------------------------------------------
(* Bounds of the explored inputs *)

\* linrange: start and stop range over 0..MaxVal (and a few values at the
\* scale of NUMPREC), a given step over -MaxStep..MaxStep, div over 0..MaxDiv
MaxVal == 10
MaxStep == 2
MaxDiv == 3
\* the generator is followed for at most MaxYield yielded values
MaxYield == 12
\* nut and washer: the diameters 0.1, 0.2, ... up to MaxDiamTenths tenths
MaxDiamTenths == 660
\* springs: lengths 1..MaxLength, diameters 1..MaxDiam, wire diameters
\* 1/2..MaxThickHalves/2, arms 1..MaxArm, angles 0..MaxAngleQuarters*pi/4
MaxLength == 5
MaxDiam == 4
MaxThickHalves == 3
MaxArm == 5
MaxAngleQuarters == 2

---------------------------------------------------------------------------
(* Exact rational arithmetic standing for Python's float operators *)

RECURSIVE GCD(_, _)
GCD(a, b) == IF b = 0 THEN a ELSE GCD(b, a % b)

Abs(n) == IF n < 0 THEN -n ELSE n

\* the rational n/d in lowest terms, d # 0
Rat(n, d) ==
    LET g == GCD(Abs(n), Abs(d))
        s == IF d < 0 THEN -1 ELSE 1
    IN  <<(s * n) \div g, (s * d) \div g>>

Num(n) == <<n, 1>>
Zero == Num(0)
None == <<>>

RAdd(a, b) == Rat(a[1] * b[2] + b[1] * a[2], a[2] * b[2])
RSub(a, b) == Rat(a[1] * b[2] - b[1] * a[2], a[2] * b[2])
RMul(a, b) == Rat(a[1] * b[1], a[2] * b[2])
\* b # 0: the callers model ZeroDivisionError before dividing
RDiv(a, b) == Rat(a[1] * b[2], a[2] * b[1])
RNeg(a) == <<-a[1], a[2]>>
RAbs(a) == <<Abs(a[1]), a[2]>>
RLe(a, b) == a[1] * b[2] <= b[1] * a[2]
RLt(a, b) == a[1] * b[2] < b[1] * a[2]
RSq(a) == RMul(a, a)
RFloor(a) == a[1] \div a[2]
RCeil(a) == -((-a[1]) \div a[2])
RSign(a) == IF a[1] > 0 THEN Num(1) ELSE IF a[1] < 0 THEN Num(-1) ELSE Zero

\* Python truthiness of an optional number: `not x` holds of None and of 0
Falsy(x) == x = None \/ x = Zero

\* the tolerance of mathutils (1e-13 in the program), kept far below every
\* angular step and every table size of the model
NUMPREC == Rat(1, 100)

\* math.pi, as a rational: every angle of the model is a rational multiple
\* of it, and it cancels wherever the code divides an angle by 2*pi
pi == Rat(22, 7)
TwoPi == RMul(Num(2), pi)

---------------------------------------------------------------------------
(* linrange, standard.py 722-745 *)

\* lines 736-742 with the first value skipped
linrange_init_skipfirst(start, stop, step, div, end) ==
    LET a  == IF stop = None THEN Zero ELSE start
        b  == IF stop = None THEN start ELSE stop
        s  == IF step = None THEN RDiv(RSub(b, a), Num(div + 1))
              ELSE IF RLt(RMul(step, RSub(b, a)), Zero) THEN RNeg(step)
              ELSE step
        b1 == IF ~end THEN RSub(b, s) ELSE b
    IN  [start |-> a, stop |-> RAdd(b1, NUMPREC), step |-> s, t |-> RAdd(a, s)]

\* lines 736-742 with the spacing (stop-start)/div
linrange_init_divspacing(start, stop, step, div, end) ==
    LET a  == IF stop = None THEN Zero ELSE start
        b  == IF stop = None THEN start ELSE stop
        s  == IF step = None THEN RDiv(RSub(b, a), Num(div + 2))
              ELSE IF RLt(RMul(step, RSub(b, a)), Zero) THEN RNeg(step)
              ELSE step
        b1 == IF ~end THEN RSub(b, s) ELSE b
    IN  [start |-> a, stop |-> RAdd(b1, NUMPREC), step |-> s, t |-> a]

\* lines 736-742: the locals start, stop, step and t when the loop begins
linrange_init(start, stop, step, div, end) ==
    LET a  == IF stop = None THEN Zero ELSE start
        b  == IF stop = None THEN start ELSE stop
        s  == IF step = None THEN RDiv(RSub(b, a), Num(div + 1))
              ELSE IF RLt(RMul(step, RSub(b, a)), Zero) THEN RNeg(step)
              ELSE step
        b1 == IF ~end THEN RSub(b, s) ELSE b
    IN  [start |-> a, stop |-> RAdd(b1, NUMPREC), step |-> s, t |-> a]

\* line 743: the loop condition
linrange_continue(g) == RLe(g.t, g.stop)

\* lines 743-745 run to the end, from the locals g of a call whose step is
\* positive or whose loop is not entered: the loop yields t, t+step, ... as
\* long as the value is <= stop, which are floor((stop-t)/step)+1 values
\* (LoopClosedForm checks this against the loop taken turn by turn)
linrange_count(g) ==
    IF linrange_continue(g)
    THEN RFloor(RDiv(RSub(g.stop, g.t), g.step)) + 1
    ELSE 0

linrange_loop(g) ==
    [k \in 1..linrange_count(g) |-> RAdd(g.t, RMul(Num(k - 1), g.step))]

\* the whole sequence a terminating call yields
linrange(start, stop, step, div, end) ==
    linrange_loop(linrange_init(start, stop, step, div, end))

\* the inputs of the explored calls
Fine == {Rat(1, 200), NUMPREC, Rat(1, 50)}
Starts == {Num(i) : i \in 0..MaxVal}
Stops == {Num(i) : i \in 0..MaxVal} \cup Fine \cup {None}
Steps == {Num(i) : i \in (-MaxStep)..MaxStep} \cup {Rat(3, 10), NUMPREC, None}

NoGen == [start |-> Zero, stop |-> Zero, step |-> Zero, t |-> Zero]
NoRet == [kind |-> "none", exc |-> "", val |-> <<>>]

Init ==
    /\ pc = "idle"
    /\ fn = "none"
    /\ args = [none |-> TRUE]
    /\ gen = NoGen
    /\ out = <<>>
    /\ ret = NoRet

\* the call: the generator's body runs to the loop
linrange_call ==
    /\ pc = "idle"
    /\ \E start \in Starts, stop \in Stops, step \in Steps,
          div \in 0..MaxDiv, end \in BOOLEAN :
        \* div only matters without a step: one value of it is enough then
        /\ step # None => div = 0
        /\ fn' = "linrange"
        /\ args' = [start |-> start, stop |-> stop, step |-> step,
                    div |-> div, end |-> end]
        /\ gen' = linrange_init(start, stop, step, div, end)
    /\ pc' = "loop"
    /\ UNCHANGED <<out, ret>>

\* lines 743-745: one turn of the loop yields t and advances it
linrange_yield ==
    /\ pc = "loop"
    /\ fn = "linrange"
    /\ linrange_continue(gen)
    /\ Len(out) < MaxYield
    /\ out' = Append(out, gen.t)
    /\ gen' = [gen EXCEPT !.t = RAdd(gen.t, gen.step)]
    /\ UNCHANGED <<pc, fn, args, ret>>

\* line 743: the condition fails and the generator is exhausted
linrange_return ==
    /\ pc = "loop"
    /\ fn = "linrange"
    /\ ~linrange_continue(gen)
    /\ pc' = "done"
    /\ UNCHANGED <<fn, args, gen, out, ret>>

---------------------------------------------------------------------------
(* Properties of linrange *)

\* the start and stop a call means (line 736)
ArgStart == IF args.stop = None THEN Zero ELSE args.start
ArgStop == IF args.stop = None THEN args.start ELSE args.stop

\* the sequence a, a+s, ..., a+(n-1)*s
Progression(a, s, n) == [k \in 1..n |-> RAdd(a, RMul(Num(k - 1), s))]

LinrangeDone == fn = "linrange" /\ pc = "done"

\* a finished call linrange(start, stop, div=n) with start < stop, end=True
DivCall ==
    /\ LinrangeDone
    /\ args.step = None
    /\ args.end
    /\ RLt(ArgStart, ArgStop)

DivSpacing == RDiv(RSub(ArgStop, ArgStart), Num(args.div + 1))

\* C3 as stated: linrange(start, stop, div=n) with start < stop and end=True
\* yields exactly n+2 values: start, n interior values spaced by
\* (stop-start)/(n+1), and stop as the last one.
C3_DivYieldsNPlus2 ==
    DivCall => out = Progression(ArgStart, DivSpacing, args.div + 2)

\* C3 amended: the same, for a spacing (stop-start)/(n+1) larger than the
\* tolerance NUMPREC (a smaller spacing lets values past stop through, up to
\* stop+NUMPREC).
C3_DivYieldsNPlus2_AboveTolerance ==
    (DivCall /\ RLt(NUMPREC, DivSpacing)) =>
        /\ out = Progression(ArgStart, DivSpacing, args.div + 2)
        /\ Len(out) = args.div + 2
        /\ out[1] = ArgStart
        /\ out[Len(out)] = ArgStop

\* C3 witness: start=0, stop=10, div=3 has yielded 0, 2.5, 5, 7.5, 10
C3_Witness ==
    /\ DivCall
    /\ args.div = 3
    /\ ArgStart = Zero /\ ArgStop = Num(10)
    /\ RLt(NUMPREC, DivSpacing)
    /\ out = <<Zero, Rat(5, 2), Num(5), Rat(15, 2), Num(10)>>

\* a finished call linrange(start, stop, step) with start <= stop, step > 0
\* and end=True
StepCall ==
    /\ LinrangeDone
    /\ args.step # None
    /\ RLt(Zero, args.step)
    /\ args.end
    /\ RLe(ArgStart, ArgStop)

\* C4: for start <= stop, step > 0 and end=True linrange yields exactly
\* start, start+step, start+2*step, ... in that order, every value t with
\* start <= t <= stop+NUMPREC, and the next value start+k*step would exceed
\* stop+NUMPREC.
C4_StepProgression ==
    StepCall =>
        /\ Len(out) >= 1
        /\ out = Progression(ArgStart, args.step, Len(out))
        /\ \A k \in 1..Len(out) :
              /\ RLe(ArgStart, out[k])
              /\ RLe(out[k], RAdd(ArgStop, NUMPREC))
        /\ RLt(RAdd(ArgStop, NUMPREC),
               RAdd(ArgStart, RMul(Num(Len(out)), args.step)))

\* C4 witness: start=0, stop=1, step=0.3 has yielded 0, 0.3, 0.6, 0.9
C4_Witness ==
    /\ StepCall
    /\ ArgStart = Zero /\ ArgStop = Num(1) /\ args.step = Rat(3, 10)
    /\ out = <<Zero, Rat(3, 10), Rat(6, 10), Rat(9, 10)>>

\* C5 as stated: linrange(start, stop, step) with start > stop and a non-zero
\* step of either sign yields the descending sequence start, start-|step|,
\* ... of the values between start and stop; it is not empty and begins with
\* start.
C5_DescendingRange ==
    (/\ LinrangeDone
     /\ args.step # None /\ args.step # Zero
     /\ args.end
     /\ RLt(ArgStop, ArgStart)) =>
        /\ Len(out) >= 1
        /\ out[1] = ArgStart
        /\ out = Progression(ArgStart, RNeg(RAbs(args.step)), Len(out))
        /\ \A k \in 1..Len(out) : RLe(ArgStop, out[k])

\* the sequence s without a last value equal to v
WithoutFinal(s, v) ==
    IF Len(s) > 0 /\ s[Len(s)] = v THEN SubSeq(s, 1, Len(s) - 1) ELSE s

\* C6 as stated: with end=False, start < stop and step > 0 or div >= 0,
\* every yielded value is strictly before stop, and the sequence is the
\* end=True sequence without a final value equal to stop.
C6_EndFalseDropsOnlyStop ==
    (/\ LinrangeDone
     /\ ~args.end
     /\ RLt(ArgStart, ArgStop)
     /\ (args.step = None \/ RLt(Zero, args.step))) =>
        /\ \A k \in 1..Len(out) : RLt(out[k], ArgStop)
        /\ out = WithoutFinal(
                    linrange(args.start, args.stop, args.step, args.div, TRUE),
                    ArgStop)

\* the closed form of the loop agrees with the loop taken turn by turn
LoopClosedForm ==
    (LinrangeDone /\ RLt(Zero, gen.step)) =>
        out = linrange(args.start, args.stop, args.step, args.div, args.end)

\* C7 as stated: a call whose step evaluates to zero fails with an error
\* instead of yielding values without end.
C7_ZeroStepRaises ==
    (fn = "linrange" /\ gen.step = Zero /\ out # <<>>) => pc = "raised"

---------------------------------------------------------------------------
(* Standard nuts and washers, standard.py 282-437 *)

\* a table entry given in tenths: T(16) is 1.6
T(n) == Rat(n, 10)

\* lines 333-363: thread, w, h
standard_hexnuts == <<
    <<T(16), T(32), T(13)>>,
    <<T(20), T(40), T(16)>>,
    <<T(25), T(50), T(20)>>,
    <<T(30), T(55), T(24)>>,
    <<T(35), T(60), T(28)>>,
    <<T(40), T(70), T(32)>>,
    <<T(50), T(80), T(47)>>,
    <<T(60), T(100), T(52)>>,
    <<T(80), T(130), T(68)>>,
    <<T(100), T(160), T(84)>>,
    <<T(120), T(180), T(108)>>,
    <<T(140), T(210), T(128)>>,
    <<T(160), T(240), T(148)>>,
    <<T(180), T(270), T(158)>>,
    <<T(200), T(300), T(180)>>,
    <<T(220), T(340), T(194)>>,
    <<T(240), T(360), T(215)>>,
    <<T(270), T(410), T(238)>>,
    <<T(300), T(460), T(256)>>,
    <<T(330), T(500), T(387)>>,
    <<T(360), T(550), T(310)>>,
    <<T(390), T(600), T(334)>>,
    <<T(420), T(650), T(340)>>,
    <<T(450), T(700), T(360)>>,
    <<T(480), T(750), T(380)>>,
    <<T(520), T(800), T(420)>>,
    <<T(560), T(850), T(450)>>,
    <<T(600), T(900), T(480)>>,
    <<T(640), T(950), T(510)>> >>

\* lines 407-437: nominal screw, interior, exterior, thickness
standard_washers == <<
    <<T(16), T(17), T(40), T(3)>>,
    <<T(20), T(22), T(50), T(3)>>,
    <<T(25), T(27), T(60), T(5)>>,
    <<T(26), T(28), T(70), T(5)>>,
    <<T(30), T(32), T(70), T(5)>>,
    <<T(35), T(37), T(80), T(5)>>,
    <<T(40), T(43), T(90), T(8)>>,
    <<T(50), T(53), T(100), T(10)>>,
    <<T(60), T(64), T(120), T(16)>>,
    <<T(70), T(74), T(140), T(16)>>,
    <<T(80), T(84), T(160), T(16)>>,
    <<T(100), T(105), T(200), T(20)>>,
    <<T(120), T(130), T(240), T(25)>>,
    <<T(140), T(150), T(280), T(25)>>,
    <<T(160), T(170), T(300), T(30)>>,
    <<T(180), T(190), T(340), T(30)>>,
    <<T(200), T(210), T(370), T(30)>>,
    <<T(220), T(230), T(390), T(30)>>,
    <<T(240), T(250), T(440), T(40)>>,
    <<T(270), T(280), T(500), T(40)>>,
    <<T(300), T(310), T(560), T(40)>>,
    <<T(330), T(340), T(600), T(50)>>,
    <<T(360), T(370), T(660), T(50)>>,
    <<T(390), T(400), T(720), T(60)>>,
    <<T(420), T(430), T(780), T(70)>>,
    <<T(450), T(460), T(850), T(70)>>,
    <<T(480), T(500), T(920), T(80)>>,
    <<T(520), T(540), T(980), T(80)>>,
    <<T(560), T(580), T(1050), T(90)>> >>

\* what a call returns or raises
Raise(exc, msg) == [kind |-> "raise", exc |-> exc, val |-> msg]
Return(kind, val) == [kind |-> kind, exc |-> "", val |-> val]

\* the lookup of mathutils used at lines 294 and 382: a dichotomy on the
\* first column of a sorted table, giving the 0-based index of the row equal
\* to index or, without one, of the first row above it (the table's length
\* when no row is above)
RECURSIVE bisect_loop(_, _, _, _)
bisect_loop(l, index, start, end) ==
    IF start < end
    THEN LET mid == (start + end) \div 2
             val == l[mid + 1][1]
         IN  IF RLt(val, index) THEN bisect_loop(l, index, mid + 1, end)
             ELSE IF RLt(index, val) THEN bisect_loop(l, index, start, mid)
             ELSE mid
    ELSE start

bisect(l, index) == bisect_loop(l, index, 0, Len(l))

\* lines 300-325: the nut built from the dimensions (the mesh is the
\* kernel's work)
hexnut(d, w, h) == Return("Mesh", [shape |-> "hexnut", d |-> d, w |-> w, h |-> h])

\* lines 294-297
nut(d) ==
    LET i == bisect(standard_hexnuts, d)
    IN  IF i >= Len(standard_hexnuts)
        THEN Raise("IndexError", "list index out of range")
        ELSE LET a == standard_hexnuts[i + 1]
             IN  IF a[1] # d
                 THEN Raise("ValueError", "no standard nut for the given diameter")
                 ELSE hexnut(a[1], a[2], a[3])

\* lines 391-397: the washer extruded from the ring between two circles
washer_mesh(d, e, h) ==
    Return("Mesh", [shape |-> "washer", d |-> d, e |-> e, h |-> h])

\* lines 381-397
washer(d, e, h) ==
    IF e = None /\ h = None
    THEN LET i == bisect(standard_washers, d)
         IN  IF i >= Len(standard_washers)
             THEN Raise("IndexError", "list index out of range")
             ELSE LET a == standard_washers[i + 1]
                  IN  IF RLt(RDiv(RAbs(RSub(a[1], d)), d), Rat(2, 10))
                      THEN washer_mesh(a[2], a[3], a[4])
                      ELSE Raise("ValueError",
                                 "no standard nut for the given diameter")
    ELSE LET d1 == RMul(d, Rat(11, 10))
             e1 == IF e = None THEN RMul(d1, Num(2)) ELSE e
             h1 == IF h = None THEN RMul(d1, Rat(1, 10)) ELSE h
         IN  washer_mesh(d1, e1, h1)

\* the nominal diameters asked for: 0.1, 0.2, ... MaxDiamTenths/10
Diameters == {T(i) : i \in 1..MaxDiamTenths}

nut_call ==
    /\ pc = "idle"
    /\ \E d \in Diameters :
        \E r \in {nut(d)} :
            /\ args' = [d |-> d]
            /\ ret' = r
            /\ pc' = IF r.kind = "raise" THEN "raised" ELSE "done"
    /\ fn' = "nut"
    /\ UNCHANGED <<gen, out>>

washer_call ==
    /\ pc = "idle"
    /\ \E d \in Diameters, e \in {None, Num(20)}, h \in {None, Num(2)} :
        \E r \in {washer(d, e, h)} :
            /\ args' = [d |-> d, e |-> e, h |-> h]
            /\ ret' = r
            /\ pc' = IF r.kind = "raise" THEN "raised" ELSE "done"
    /\ fn' = "washer"
    /\ UNCHANGED <<gen, out>>

\* the rows of a table whose first column is v
RowsOf(table, v) == {k \in 1..Len(table) : table[k][1] = v}

NearestWashers(d) ==
    {k \in 1..Len(standard_washers) :
        \A j \in 1..Len(standard_washers) :
            RLe(RAbs(RSub(standard_washers[k][1], d)),
                RAbs(RSub(standard_washers[j][1], d)))}

\* |size - d| < 20% of d
Within20(size, d) == RLt(RMul(Num(5), RAbs(RSub(size, d))), d)

---------------------------------------------------------------------------
(* Coil springs, standard.py 444-599 *)

\* a point: (x, y, z) turned around Z by rot
Vec(x, y, z, rot) == [x |-> x, y |-> y, z |-> z, rot |-> rot]

\* vec3(r*cos(t), r*sin(t), z), lines 465, 470, 475 and 515
helix_point(r, t, z) == Vec(r, Zero, z, t)

\* vec3(-r*sin(t), r*cos(t), z), line 565
helix_point_torsion(r, t, z) == Vec(Zero, r, z, t)

\* the height without the subtraction of t0
helix_z_from_zero(z0, t, t0, pitch) ==
    RAdd(z0, RMul(RDiv(t, TwoPi), pitch))

\* z0 + (t-t0)/(2*pi) * pitch, lines 465, 470, 475 (515 and 565 with t0 = 0)
helix_z(z0, t, t0, pitch) ==
    RAdd(z0, RMul(RDiv(RSub(t, t0), TwoPi), pitch))

\* lines 453, 501 and 551: the exterior diameter used
spring_d(d, default) == IF Falsy(d) THEN default ELSE d

\* lines 454, 502 and 552: the wire diameter used
spring_thickness(thickness, d) ==
    IF Falsy(thickness) THEN RMul(d, Rat(1, 10)) ELSE thickness

\* lines 455, 503 and 554: the coil radius
coil_radius(d, thickness) == RSub(RDiv(d, Num(2)), thickness)

\* lines 458, 513 and 563: the angle between two points, for the resolution
\* div that settings.curve_resolution gives
angle_step(div) == RDiv(TwoPi, Num(div + 1))

\* the loop variable after a for loop over ts: the last value, or its value
\* before the loop when ts is empty
LastOr(ts, before) == IF Len(ts) = 0 THEN before ELSE ts[Len(ts)]

\* tube(flatsurface(Circle(...)), path): the swept mesh is the kernel's work
tube(radius, path) ==
    Return("Mesh", [shape |-> "tube", radius |-> radius, path |-> path])

\* lines 453-489
coilspring_compression(length, d0, thickness0, solid, div) ==
    LET d         == spring_d(d0, RMul(length, Rat(2, 10)))
        thickness == spring_thickness(thickness0, d)
        r         == coil_radius(d, thickness)
        e         == r
        step      == angle_step(div)
        \* lines 462-465
        t0a  == Zero
        z0a  == RMul(Rat(-1, 2), length)
        tsa  == linrange(t0a, RAdd(t0a, RMul(Num(4), pi)), step, 0, TRUE)
        top  == [k \in 1..Len(tsa) |->
                    helix_point(r, tsa[k], helix_z(z0a, tsa[k], t0a, thickness))]
        \* lines 467-470
        t0b  == LastOr(tsa, t0a)
        z0b  == RAdd(RMul(Rat(-1, 2), length), RMul(Num(2), thickness))
        tsb  == linrange(t0b,
                    RAdd(t0b, RDiv(RMul(TwoPi,
                                        RSub(length, RMul(Num(4), thickness))), e)),
                    step, 0, TRUE)
        coil == [k \in 1..Len(tsb) |->
                    helix_point(r, tsb[k], helix_z(z0b, tsb[k], t0b, e))]
        \* lines 472-475
        t0c  == LastOr(tsb, t0b)
        z0c  == RSub(RMul(Rat(1, 2), length), RMul(Num(2), thickness))
        tsc  == linrange(t0c, RAdd(t0c, RMul(Num(4), pi)), step, 0, TRUE)
        bot  == [k \in 1..Len(tsc) |->
                    helix_point(r, tsc[k], helix_z(z0c, tsc[k], t0c, thickness))]
        \* line 477
        path == [points |-> top \o coil \o bot,
                 top |-> top, coil |-> coil, bot |-> bot]
    IN  IF e = Zero
        THEN Raise("ZeroDivisionError", "float division by zero")
        ELSE IF ~solid THEN Return("Wire", path)
        ELSE tube(RDiv(thickness, Num(2)), path)

\* the vectors of the hooks of a tension spring, not turned
Cart(x, y, z) == Vec(x, y, z, Zero)

\* ArcCentered((center, X), a, b), lines 520 and 524
ArcCentered(center, a, b) ==
    [prim |-> "ArcCentered", center |-> center, a |-> a, b |-> b]

\* ArcThrough(a, (a' + c')*0.5 + off, c): the arc through the middle of its
\* two ends moved by off, lines 521 and 523
ArcThrough(a, off, c) == [prim |-> "ArcThrough", a |-> a, off |-> off, c |-> c]

\* lines 501-536
coilspring_tension(length, d0, thickness0, solid, div) ==
    LET d         == spring_d(d0, RMul(length, Rat(2, 10)))
        thickness == spring_thickness(thickness0, d)
        r         == coil_radius(d, thickness)
        spring_length == RSub(length, RMul(Num(2), r))
        ncoil     == RSub(Num(RFloor(RDiv(spring_length, thickness))), Rat(1, 2))
        hold      == RSub(RMul(Rat(1, 2), length), r)
        step      == angle_step(div)
        z0        == RMul(RMul(Rat(-1, 2), ncoil), thickness)
        ts        == linrange(Zero, RMul(TwoPi, ncoil), step, 0, TRUE)
        coil      == [k \in 1..Len(ts) |->
                        helix_point(r, ts[k], helix_z(z0, ts[k], Zero, thickness))]
        half      == RMul(Rat(1, 2), length)
        off       == Cart(Zero, RMul(Rat(-1, 2), r), Zero)
        path      == [hook1 |-> ArcCentered(Cart(Zero, Zero, RNeg(half)),
                                    Cart(Zero, RNeg(r), RNeg(half)),
                                    Cart(Zero, Zero, RNeg(hold))),
                      join1 |-> ArcThrough(Cart(Zero, Zero, RNeg(hold)), off, coil[1]),
                      coil  |-> coil,
                      join2 |-> ArcThrough(coil[Len(coil)], off, Cart(Zero, Zero, hold)),
                      hook2 |-> ArcCentered(Cart(Zero, Zero, half),
                                    Cart(Zero, Zero, hold),
                                    Cart(Zero, RNeg(r), half))]
    IN  IF Len(ts) = 0
        THEN Raise("IndexError", "index out of range")
        ELSE IF ~solid THEN Return("Wire", path)
        ELSE tube(RDiv(thickness, Num(2)), path)

\* Wire.transform(v) with a vector: the point moved by v (v not turned)
translate(p, v) ==
    Vec(RAdd(p.x, v.x), RAdd(p.y, v.y), RAdd(p.z, v.z), p.rot)

\* transform(scaledir(Z,-1)*scaledir(X,-1)): x and z change sign
scaledir_ZX(p) == Vec(RNeg(p.x), p.y, RNeg(p.z), p.rot)

\* transform(angleAxis(angle, Z)): turned around Z by angle
angleAxis_Z(p, angle) == Vec(p.x, p.y, p.z, RAdd(p.rot, angle))

\* Wire.flip(): the points in the reverse order
flip(w) == [k \in 1..Len(w) |-> w[Len(w) + 1 - k]]

\* whether the angle a is a whole number of turns
WholeTurns(a) == RDiv(a, TwoPi)[2] = 1

\* whether two points are at the same place
SamePoint(p, q) ==
    /\ p.z = q.z
    /\ \/ p.x = q.x /\ p.y = q.y /\ WholeTurns(RSub(p.rot, q.rot))
       \/ p.x = Zero /\ p.y = Zero /\ q.x = Zero /\ q.y = Zero

\* the sequence w without its elements at the indices of D
RECURSIVE without(_, _)
without(w, D) ==
    IF D = {} THEN w
    ELSE LET k == CHOOSE i \in D : \A j \in D : j <= i
         IN  without(SubSeq(w, 1, k - 1) \o SubSeq(w, k + 1, Len(w)), D \ {k})

\* Wire.mergeclose(): a point at the place of the one before it is dropped
mergeclose(w) ==
    without(w, {k \in 2..Len(w) : SamePoint(w[k - 1], w[k])})

\* the arm reaching arm - |c| only
torsion_arm_short(arm, hook, c) ==
    << Cart(RSub(arm, RAbs(c)), Zero, hook),
       Cart(RSub(arm, RAbs(c)), Zero, c),
       Cart(RSub(arm, RAbs(c)), Zero, Zero),
       Cart(Zero, Zero, Zero) >>

\* lines 573-578: the arm and its hook, before it is moved to the coil
torsion_arm(arm, hook, c) ==
    << Cart(arm, Zero, hook),
       Cart(arm, Zero, c),
       Cart(RSub(arm, RAbs(c)), Zero, Zero),
       Cart(Zero, Zero, Zero) >>

\* lines 550-599
coilspring_torsion(arm, angle0, d0, length0, thickness0, hook0, solid, div) ==
    LET length    == IF Falsy(length0) THEN RMul(arm, Rat(1, 2)) ELSE length0
        d         == spring_d(d0, arm)
        thickness == spring_thickness(thickness0, d)
        hook1     == IF Falsy(hook0) THEN RNeg(length) ELSE hook0
        r         == coil_radius(d, thickness)
        angle     == RSub(pi, angle0)
        ncoil     == RAdd(Num(RCeil(RDiv(length, thickness))), RDiv(angle, TwoPi))
        step      == angle_step(div)
        z0        == RMul(RMul(Rat(-1, 2), ncoil), thickness)
        ts        == linrange(Zero, RMul(TwoPi, ncoil), step, 0, TRUE)
        coil      == [k \in 1..Len(ts) |->
                        helix_point_torsion(r, ts[k],
                                            helix_z(z0, ts[k], Zero, thickness))]
        c         == RMul(thickness, RSign(hook1))
        hook      == IF RLt(RAbs(hook1), RAbs(c)) THEN c ELSE hook1
        arm0      == torsion_arm(arm, hook, c)
        top       == [k \in 1..Len(arm0) |-> translate(arm0[k], coil[1])]
        ftop      == flip(top)
        bot       == [k \in 1..Len(ftop) |-> angleAxis_Z(scaledir_ZX(ftop[k]), angle)]
        path      == mergeclose(top \o coil \o bot)
    IN  IF Len(ts) = 0
        THEN Raise("IndexError", "index out of range")
        ELSE IF ~solid THEN Return("Wire", [points |-> path])
        ELSE tube(RDiv(thickness, Num(2)), [points |-> path])

\* the inputs of the explored spring calls
Lengths == {Num(i) : i \in 1..MaxLength}
SpringDiams == {None} \cup {Num(i) : i \in 1..MaxDiam}
Thicknesses == {None} \cup {Rat(i, 2) : i \in 1..MaxThickHalves}
Arms == {Num(i) : i \in 1..MaxArm}
Angles == {RMul(Rat(k, 4), pi) : k \in 0..MaxAngleQuarters}
Hooks == {None, Num(-1), Rat(1, 4), Num(2)}

coilspring_compression_call ==
    /\ pc = "idle"
    /\ \E length \in Lengths, d \in SpringDiams, thickness \in Thicknesses,
          solid \in BOOLEAN, div \in 0..MaxDiv :
        \E r \in {coilspring_compression(length, d, thickness, solid, div)} :
            /\ args' = [length |-> length, d |-> d, thickness |-> thickness,
                        solid |-> solid, div |-> div]
            /\ ret' = r
            /\ pc' = IF r.kind = "raise" THEN "raised" ELSE "done"
    /\ fn' = "coilspring_compression"
    /\ UNCHANGED <<gen, out>>

coilspring_tension_call ==
    /\ pc = "idle"
    /\ \E length \in Lengths, d \in SpringDiams, thickness \in Thicknesses,
          solid \in BOOLEAN, div \in 0..MaxDiv :
        \E r \in {coilspring_tension(length, d, thickness, solid, div)} :
            /\ args' = [length |-> length, d |-> d, thickness |-> thickness,
                        solid |-> solid, div |-> div]
            /\ ret' = r
            /\ pc' = IF r.kind = "raise" THEN "raised" ELSE "done"
    /\ fn' = "coilspring_tension"
    /\ UNCHANGED <<gen, out>>

coilspring_torsion_call ==
    /\ pc = "idle"
    /\ \E arm \in Arms, angle \in Angles, d \in {None, Num(MaxDiam)},
          length \in {None, Num(2)},
          thickness \in {None, Rat(1, 2), Rat(MaxThickHalves, 2)},
          hook \in Hooks, solid \in BOOLEAN, div \in {0, MaxDiv} :
        \E r \in {coilspring_torsion(arm, angle, d, length, thickness, hook,
                                    solid, div)} :
            /\ args' = [arm |-> arm, angle |-> angle, d |-> d, length |-> length,
                        thickness |-> thickness, hook |-> hook, solid |-> solid,
                        div |-> div]
            /\ ret' = r
            /\ pc' = IF r.kind = "raise" THEN "raised" ELSE "done"
    /\ fn' = "coilspring_torsion"
    /\ UNCHANGED <<gen, out>>

---------------------------------------------------------------------------
(* Properties of the coil springs *)

\* the diameter, wire diameter and coil radius a spring call uses
UsedD ==
    spring_d(args.d, IF fn = "coilspring_torsion" THEN args.arm
                     ELSE RMul(args.length, Rat(2, 10)))
UsedThickness == spring_thickness(args.thickness, UsedD)
UsedRadius == coil_radius(UsedD, UsedThickness)

SpringCall ==
    fn \in {"coilspring_compression", "coilspring_tension", "coilspring_torsion"}

\* d/2 > thickness > 0
ValidSpring == RLt(Zero, UsedThickness) /\ RLt(Zero, UsedRadius)

First(w) == w[1]
Last(w) == w[Len(w)]

\* C1: for d/2 > thickness > 0 and every resolution div >= 0, the path of
\* coilspring_compression(length, d, thickness, solid=False) begins at
\* z = -length/2 and ends at z = +length/2.
C1_CompressionEnds ==
    (fn = "coilspring_compression" /\ ~args.solid /\ ValidSpring) =>
        /\ ret.kind = "Wire"
        /\ Len(ret.val.points) >= 2
        /\ First(ret.val.points).z = RMul(Rat(-1, 2), args.length)
        /\ Last(ret.val.points).z = RMul(Rat(1, 2), args.length)

\* C1 witness: a path with a main coil body of several points has been built
C1_Witness ==
    /\ fn = "coilspring_compression" /\ ~args.solid /\ ValidSpring
    /\ args.div >= 1
    /\ ret.kind = "Wire"
    /\ Len(ret.val.coil) > 4
    /\ Last(ret.val.points).z = RMul(Rat(1, 2), args.length)

\* C2 as stated: each spring generator called with a wire diameter of at
\* least half the exterior diameter raises an invalid-parameter error and
\* returns no path or mesh.
C2_DegenerateRadiusRaises ==
    (SpringCall /\ RLe(UsedRadius, Zero)) =>
        /\ pc = "raised"
        /\ ret.kind = "raise"
        /\ ret.exc \in {"InvalidParameter", "ValueError"}

\* the square of the distance of a point from the Z axis
AxisDistance2(p) == RAdd(RSq(p.x), RSq(p.y))

TorsionPath ==
    fn = "coilspring_torsion" /\ ~args.solid /\ ValidSpring

CompressionPath ==
    fn = "coilspring_compression" /\ ~args.solid /\ ValidSpring

\* two points of the helix at the same angle t and the same height z
SameAngleAndZ(p, q) == p.rot = q.rot /\ p.z = q.z

\* the height where the bottom transition starts (line 472)
BottomStartZ ==
    RSub(RMul(Rat(1, 2), args.length), RMul(Num(2), UsedThickness))

\* C11 as stated: in the path of coilspring_compression, for every valid
\* length, d, thickness and resolution, the first point of the main coil body
\* is the last point of the top transition and the first point of the bottom
\* transition is the last point of the main coil body (same angle t, same z),
\* so that the main body ends at z = length/2 - 2*thickness.
C11_SegmentsJoin ==
    CompressionPath =>
        /\ ret.kind = "Wire"
        /\ Len(ret.val.top) >= 1 /\ Len(ret.val.coil) >= 1
        /\ Len(ret.val.bot) >= 1
        /\ SameAngleAndZ(First(ret.val.coil), Last(ret.val.top))
        /\ SameAngleAndZ(First(ret.val.bot), Last(ret.val.coil))
        /\ Last(ret.val.coil).z = BottomStartZ

\* the part of C11 the code keeps: a main coil body that has points starts
\* at the last point of the top transition, and the bottom transition starts
\* at the angle the path has reached, at z = length/2 - 2*thickness
TopJoinsCoil ==
    CompressionPath =>
        /\ ret.kind = "Wire"
        /\ Len(ret.val.top) >= 1 /\ Len(ret.val.bot) >= 1
        /\ First(ret.val.bot).z = BottomStartZ
        /\ IF Len(ret.val.coil) >= 1
           THEN /\ SameAngleAndZ(First(ret.val.coil), Last(ret.val.top))
                /\ First(ret.val.bot).rot = Last(ret.val.coil).rot
                /\ RLe(Last(ret.val.coil).z, BottomStartZ)
           ELSE /\ First(ret.val.bot).rot = Last(ret.val.top).rot
                /\ RLt(BottomStartZ, Last(ret.val.top).z)

\* the main coil body ends below the start of the bottom transition: the
\* default spring of length 5 at the resolution div = 0
CoilEndsBelowBottom ==
    /\ CompressionPath
    /\ args.length = Num(5) /\ args.d = None /\ args.thickness = None
    /\ args.div = 0
    /\ Last(ret.val.coil).z = Rat(21, 10)
    /\ First(ret.val.bot).z = Rat(23, 10)

\* the main coil body is empty (length < 4*thickness) and the bottom
\* transition starts below the end of the top transition
CoilEmptyAndZFallsBack ==
    /\ CompressionPath
    /\ Len(ret.val.coil) = 0
    /\ RLt(First(ret.val.bot).z, Last(ret.val.top).z)

\* the junction of C11 does happen for some inputs: the angular extent of the
\* main body is a whole number of steps
CoilMeetsBottom ==
    /\ CompressionPath
    /\ Len(ret.val.coil) > 1
    /\ SameAngleAndZ(First(ret.val.bot), Last(ret.val.coil))

---------------------------------------------------------------------------
\* the range stepper alone
LinrangeNext ==
    \/ linrange_call
    \/ linrange_yield
    \/ linrange_return

\* the standard part lookups alone
StandardNext ==
    \/ nut_call
    \/ washer_call

\* the spring generators alone
SpringNext ==
    \/ coilspring_compression_call
    \/ coilspring_tension_call
    \/ coilspring_torsion_call

Next == LinrangeNext \/ StandardNext \/ SpringNext

Spec == Init /\ [][Next]_vars
LinrangeSpec == Init /\ [][LinrangeNext]_vars
StandardSpec == Init /\ [][StandardNext]_vars
SpringSpec == Init /\ [][SpringNext]_vars

=============================================================================
